---- MODULE Spec2Model ----
(***************************************************************************)
(* Playlist generator (src/app.py): the feasibility check                  *)
(* validate_playlist_rules, the allocator generate_playlists, the naming   *)
(* fallback suggest_playlist_names and the driver process_playlists.       *)
(*                                                                         *)
(* A DataFrame is a record [columns, rows]; a row is a record carrying its *)
(* index label (idx), its cells and the set (nan) of columns whose cell is *)
(* missing.  Random sampling is a nondeterministic choice among the rows   *)
(* that have a positive sampling weight.                                   *)
(***************************************************************************)
EXTENDS Integers, Sequences, FiniteSets, TLC

VARIABLES pc, calls, data, num_playlists, tracks_per_playlist, use_openai,
          is_valid, message, results,
          playlists, playlist, used_artists, used_isrcs, remaining_tracks, iterations,
          playlist_names, svc, session_state, session0

vars == <<pc, calls, data, num_playlists, tracks_per_playlist, use_openai,
          is_valid, message, results,
          playlists, playlist, used_artists, used_isrcs, remaining_tracks, iterations,
          playlist_names, svc, session_state, session0>>

(***************************************************************************)
(* Bounds of the model.                                                    *)
(***************************************************************************)
\* process_playlists: rows of an uploaded sheet with missing cells, rows of an
\* uploaded sheet of one artist, requested playlists and tracks
MaxRows == 2
MaxUniformRows == 4
MaxPlaylists == 2
MaxTracks == 4
\* generate_playlists called on a clean pool: tracks of the pool, request
PoolMaxRows == 7
PoolMaxPlaylists == 2
PoolMaxTracks == 7
\* validate_playlist_rules: pool size and request
CheckMaxRows == 5
CheckMaxPlaylists == 2
CheckMaxTracks == 5

(***************************************************************************)
(* Columns, cells and messages.                                            *)
(***************************************************************************)
required_columns == {"artist", "title", "isrc"}

optional_columns == {"streams"}

AllColumns == required_columns \cup optional_columns

Artists == {"A", "B"}

MsgInsufficient == "Error: Archivo con data menor a tus solicitud. Ajusta la cantidad de playlists y tracks e intentalo de nuevo."

MsgRestrictions == "Too many restrictions for the available tracks."

MsgValid == "Valid playlist configuration."

MsgMissingColumns == "The uploaded file does not contain the required columns: 'Recording Artist', 'Recording Title', 'ISRC'. Please check your file and try again."

MsgReadError == "Error reading Excel file"

MsgSuccess == "Playlists generated successfully!"

\* the cap on one artist's tracks in one playlist (the filter of line 37)
ArtistCap == 3

\* the factor of the feasibility bound (line 18)
CapFactor == 3

NoFrame == [columns |-> {}, rows |-> <<>>]

Row(i, a, t, s, w, n) == [idx |-> i, artist |-> a, title |-> t, isrc |-> s, streams |-> w, nan |-> n]

RECURSIVE SeqToSet(_)
SeqToSet(s) == IF s = <<>> THEN {} ELSE {Head(s)} \cup SeqToSet(Tail(s))

Min(a, b) == IF a < b THEN a ELSE b

(***************************************************************************)
(* validate_playlist_rules                                                 *)
(***************************************************************************)
\* data['artist'].nunique(): the distinct artists, missing cells not counted
nunique(df) == Cardinality({df.rows[k].artist : k \in {j \in 1..Len(df.rows) : "artist" \notin df.rows[j].nan}})

\* variant: the two rules tested in the other order
validate_swapped(df, np, tpp) ==
    LET unique_artists == nunique(df)
        total_tracks == Len(df.rows)
        max_tracks_by_artist == CapFactor * unique_artists * np
    IN  IF max_tracks_by_artist < tpp * np THEN <<FALSE, MsgRestrictions>>
        ELSE IF total_tracks < tpp * np THEN <<FALSE, MsgInsufficient>>
        ELSE <<TRUE, MsgValid>>

\* variant: Rule A with <= for <
validate_strict(df, np, tpp) ==
    LET unique_artists == nunique(df)
        total_tracks == Len(df.rows)
        max_tracks_by_artist == CapFactor * unique_artists * np
    IN  IF total_tracks <= tpp * np THEN <<FALSE, MsgInsufficient>>
        ELSE IF max_tracks_by_artist < tpp * np THEN <<FALSE, MsgRestrictions>>
        ELSE <<TRUE, MsgValid>>

\* lines 13-23
validate_playlist_rules(df, np, tpp) ==
    LET unique_artists == nunique(df)
        total_tracks == Len(df.rows)
        max_tracks_by_artist == CapFactor * unique_artists * np
    IN  IF total_tracks < tpp * np THEN <<FALSE, MsgInsufficient>>
        ELSE IF max_tracks_by_artist < tpp * np THEN <<FALSE, MsgRestrictions>>
        ELSE <<TRUE, MsgValid>>

(***************************************************************************)
(* generate_playlists                                                      *)
(***************************************************************************)
\* used_artists.get(artist, 0)
Count(ua, a) == IF a \in DOMAIN ua THEN ua[a] ELSE 0

\* variants: the cap test off by one, either way
CappedOffByOne(ua) == {a \in DOMAIN ua : ua[a] > ArtistCap}

CappedEarly(ua) == {a \in DOMAIN ua : ua[a] >= ArtistCap - 1}

\* the artists whose count has reached the cap (the comprehension of line 37)
Capped(ua) == {a \in DOMAIN ua : ua[a] >= ArtistCap}

\* variant: the filter without the used-ISRC test
ValidIgnoringIsrcs(rem, ua, ui) ==
    LET Keep(r) == r.artist \notin Capped(ua)
    IN  SelectSeq(rem, Keep)

\* valid_tracks (lines 36-38): not a capped artist and not a used ISRC
ValidTracks(rem, ua, ui) ==
    LET Keep(r) == r.artist \notin Capped(ua) /\ r.isrc \notin ui
    IN  SelectSeq(rem, Keep)

RECURSIVE StreamsSum(_)
StreamsSum(rows) == IF rows = <<>> THEN 0 ELSE Head(rows).streams + StreamsSum(Tail(rows))

\* valid_tracks['weight'] (line 45), kept as the fraction <<streams, sum>>
Weight(valid, k) == <<valid[k].streams, StreamsSum(valid)>>

\* the positions of valid_tracks that sample(1) can return (lines 43-49)
Sampled(valid, columns) ==
    IF "streams" \in columns
    THEN {k \in 1..Len(valid) : Weight(valid, k)[1] > 0}
    ELSE 1..Len(valid)

\* variant: no adjacency test
SameAsLastNever(pl, t) == FALSE

\* the adjacency test of line 52
SameAsLast(pl, t) == pl # <<>> /\ pl[Len(pl)].artist = t.artist

\* remaining_tracks after a pick (line 61)
Remaining(rem, t) ==
    LET Keep(r) == r.isrc # t.isrc
    IN  SelectSeq(rem, Keep)

\* lines 27-28
GenerateEnter ==
    /\ pc = "generate"
    /\ calls' = Append(calls, "generate_playlists")
    /\ playlists' = <<>>
    /\ used_isrcs' = {}
    /\ pc' = "for"
    /\ UNCHANGED <<data, num_playlists, tracks_per_playlist, use_openai, is_valid,
                   message, results, playlist, used_artists, remaining_tracks, iterations,
                   playlist_names, svc, session_state, session0>>

\* lines 30-33: the next playlist starts empty, with an empty artist counter
ForNext ==
    /\ pc = "for"
    /\ Len(playlists) < num_playlists
    /\ playlist' = <<>>
    /\ used_artists' = <<>>
    /\ remaining_tracks' = data.rows
    /\ iterations' = 0
    /\ pc' = "while"
    /\ UNCHANGED <<calls, data, num_playlists, tracks_per_playlist, use_openai,
                   is_valid, message, results, playlists, used_isrcs,
                   playlist_names, svc, session_state, session0>>

\* lines 63-65: the playlist becomes a DataFrame and joins playlists
ClosePlaylist ==
    /\ playlists' = Append(playlists, playlist)
    /\ pc' = "for"
    /\ UNCHANGED <<calls, data, num_playlists, tracks_per_playlist, use_openai,
                   is_valid, message, results, playlist, used_artists, used_isrcs,
                   remaining_tracks, playlist_names, svc, session_state, session0>>

\* line 35: the loop test fails, the playlist is full
WhileExit ==
    /\ pc = "while"
    /\ Len(playlist) >= tracks_per_playlist
    /\ UNCHANGED iterations
    /\ ClosePlaylist

\* lines 36-41: no valid track, break
Break ==
    /\ pc = "while"
    /\ Len(playlist) < tracks_per_playlist
    /\ ValidTracks(remaining_tracks, used_artists, used_isrcs) = <<>>
    /\ iterations' = Min(iterations + 1, tracks_per_playlist + 1)
    /\ ClosePlaylist

\* lines 36-53: the sampled track repeats the last artist, continue
Reject ==
    /\ pc = "while"
    /\ Len(playlist) < tracks_per_playlist
    /\ LET valid == ValidTracks(remaining_tracks, used_artists, used_isrcs)
       IN  \E k \in Sampled(valid, data.columns) : SameAsLast(playlist, valid[k])
    /\ iterations' = Min(iterations + 1, tracks_per_playlist + 1)
    /\ UNCHANGED <<pc, calls, data, num_playlists, tracks_per_playlist, use_openai,
                   is_valid, message, results, playlists, playlist, used_artists, used_isrcs,
                   remaining_tracks, playlist_names, svc, session_state, session0>>

\* lines 36-61: the sampled track is appended and the bookkeeping updated
AppendTrack ==
    /\ pc = "while"
    /\ Len(playlist) < tracks_per_playlist
    /\ LET valid == ValidTracks(remaining_tracks, used_artists, used_isrcs)
       IN  \E k \in Sampled(valid, data.columns) :
             LET selected_track == valid[k]
                 artist == selected_track.artist
             IN  /\ ~SameAsLast(playlist, selected_track)
                 /\ playlist' = Append(playlist, selected_track)
                 /\ used_artists' = (artist :> (Count(used_artists, artist) + 1)) @@ used_artists
                 /\ used_isrcs' = used_isrcs \cup {selected_track.isrc}
                 /\ remaining_tracks' = Remaining(remaining_tracks, selected_track)
    /\ iterations' = Min(iterations + 1, tracks_per_playlist + 1)
    /\ UNCHANGED <<pc, calls, data, num_playlists, tracks_per_playlist, use_openai,
                   is_valid, message, results, playlists, playlist_names, svc,
                   session_state, session0>>

\* line 66
GenerateReturn ==
    /\ pc = "for"
    /\ Len(playlists) >= num_playlists
    /\ pc' = "generated"
    /\ UNCHANGED <<calls, data, num_playlists, tracks_per_playlist, use_openai,
                   is_valid, message, results, playlists, playlist, used_artists, used_isrcs,
                   remaining_tracks, iterations, playlist_names, svc, session_state, session0>>

(***************************************************************************)
(* analyze_playlist_theme and suggest_playlist_names.  A text is a sequence *)
(* of characters; a reply of the service is a record [kind, content].       *)
(***************************************************************************)
NL == "\n"

Quote == "\""

RECURSIVE SplitLines(_, _)
\* content.split("\n"), cur being the line read so far
SplitLines(content, cur) ==
    IF content = <<>> THEN <<cur>>
    ELSE IF Head(content) = NL THEN <<cur>> \o SplitLines(Tail(content), <<>>)
    ELSE SplitLines(Tail(content), Append(cur, Head(content)))

RECURSIVE LStrip(_, _)
LStrip(s, c) == IF s # <<>> /\ Head(s) = c THEN LStrip(Tail(s), c) ELSE s

RECURSIVE RStrip(_, _)
RStrip(s, c) == IF s # <<>> /\ s[Len(s)] = c THEN RStrip(SubSeq(s, 1, Len(s) - 1), c) ELSE s

\* str.strip() and str.strip('"')
Strip(s, c) == RStrip(LStrip(s, c), c)

\* name.split(".", 1)[-1]
AfterFirstDot(s) ==
    LET dots == {k \in 1..Len(s) : s[k] = "."}
    IN  IF dots = {} THEN s
        ELSE SubSeq(s, (CHOOSE k \in dots : \A j \in dots : k <= j) + 1, Len(s))

RECURSIVE DropBlank(_)
DropBlank(lines) ==
    IF lines = <<>> THEN <<>>
    ELSE IF Strip(Head(lines), " ") = <<>> THEN DropBlank(Tail(lines))
    ELSE <<Head(lines)>> \o DropBlank(Tail(lines))

RECURSIVE Str(_)
\* the decimal digits of n, as f"{n}" writes them
Str(n) ==
    LET digit == <<"0", "1", "2", "3", "4", "5", "6", "7", "8", "9">>[(n % 10) + 1]
    IN  IF n < 10 THEN <<digit>> ELSE Append(Str(n \div 10), digit)

\* f"Playlist {i + 1}"
FallbackName(i) == <<"Playlist ">> \o Str(i + 1)

\* [f"Playlist {i + 1}" for i in range(lo, hi)]
FallbackNames(lo, hi) == [k \in 1..(IF hi > lo THEN hi - lo ELSE 0) |-> FallbackName(lo + k - 1)]

Take(s, n) == SubSeq(s, 1, Min(n, Len(s)))

\* lines 68-84
analyze_playlist_theme(response) ==
    IF response.kind = "text" THEN Strip(Strip(response.content, " "), NL)
    ELSE <<"Unknown Theme">>

\* lines 100-102: the names parsed from the reply's text
ParsedNames(content, np) ==
    LET lines == DropBlank(SplitLines(content, <<>>))
    IN  Take([k \in 1..Len(lines) |-> Strip(Strip(AfterFirstDot(lines[k]), " "), Quote)], np)

\* lines 86-108: an exception (a timeout, a reply without a first choice) and a
\* reply without 'choices' both give the synthetic names
suggest_playlist_names(theme, response, np) ==
    IF response.kind = "text" THEN ParsedNames(response.content, np)
    ELSE FallbackNames(0, np)

\* lines 145-146
Padded(names, n) ==
    IF Len(names) < n THEN names \o FallbackNames(Len(names), n) ELSE names

ReplyLines == {<<>>, <<"1", ".", " ", "a">>, <<Quote, "b", Quote>>}

RECURSIVE Join(_)
\* "\n".join(lines)
Join(lines) ==
    IF lines = <<>> THEN <<>>
    ELSE IF Len(lines) = 1 THEN lines[1]
    ELSE lines[1] \o <<NL>> \o Join(Tail(lines))

\* what the service can do when asked for np names: raise or time out, reply
\* without 'choices', reply with an empty 'choices', reply with up to np + 1 lines
Replies(np) ==
    {[kind |-> k, content |-> <<>>] : k \in {"raise", "nochoices", "emptychoices"}}
    \cup {[kind |-> "text", content |-> Join(ls)] :
            ls \in UNION {[1..n -> ReplyLines] : n \in 0..(np + 1)}}

\* what the service can do when asked for the theme
ThemeReplies ==
    {[kind |-> "raise", content |-> <<>>], [kind |-> "text", content |-> <<" ", "a", NL>>]}

(***************************************************************************)
(* process_playlists                                                       *)
(***************************************************************************)
Isrcs == {1, 2}

\* the rows a sheet can hold: complete rows, and rows with one missing cell; a
\* Number of Streams cell that is present holds a positive count
RawRows(i, cols) ==
    {Row(i, a, "T", s, IF "streams" \in cols THEN 1 ELSE 0, {}) : a \in Artists, s \in Isrcs}
    \cup {Row(i, IF c = "artist" THEN "NaN" ELSE "A", IF c = "title" THEN "NaN" ELSE "T",
              IF c = "isrc" THEN 0 ELSE 1, IF c = "streams" \/ "streams" \notin cols THEN 0 ELSE 1,
              {c}) : c \in cols}

\* the column sets of an upload: complete, without the optional column, or
\* without one required column
ColumnSets ==
    {AllColumns, required_columns} \cup {AllColumns \ {c} : c \in required_columns}

\* sheets of up to MaxRows rows, and sheets of up to MaxUniformRows tracks by one artist
SheetsOf(cols) ==
    UNION {{[columns |-> cols, rows |-> f] :
              f \in {g \in [1..n -> UNION {RawRows(i, cols) : i \in 0..(n - 1)}] :
                       \A k \in 1..n : g[k].idx = k - 1}} : n \in 0..MaxRows}
    \cup {[columns |-> cols,
           rows |-> [k \in 1..n |-> Row(k - 1, "A", "T", k, IF "streams" \in cols THEN 1 ELSE 0, {})]] :
            n \in (MaxRows + 1)..MaxUniformRows}

\* lines 112-116
ReadExcel ==
    /\ pc = "read"
    /\ \/ /\ message' = MsgReadError
          /\ pc' = "done"
          /\ UNCHANGED data
       \/ /\ \E cols \in ColumnSets : \E sh \in SheetsOf(cols) : data' = sh
          /\ pc' = "columns"
          /\ UNCHANGED message
    /\ UNCHANGED <<calls, num_playlists, tracks_per_playlist, use_openai, is_valid,
                   results, playlists, playlist, used_artists, used_isrcs, remaining_tracks,
                   iterations, playlist_names, svc, session_state, session0>>

\* lines 118-123
CheckColumns ==
    /\ pc = "columns"
    /\ IF required_columns \subseteq data.columns
       THEN pc' = "prepare" /\ UNCHANGED message
       ELSE pc' = "done" /\ message' = MsgMissingColumns
    /\ UNCHANGED <<calls, data, num_playlists, tracks_per_playlist, use_openai,
                   is_valid, results, playlists, playlist, used_artists, used_isrcs,
                   remaining_tracks, iterations, playlist_names, svc, session_state, session0>>

\* line 125: the required columns and the optional ones the sheet has
SelectColumns(df) ==
    [columns |-> df.columns \cap (required_columns \cup optional_columns),
     rows |-> [k \in 1..Len(df.rows) |->
                 [df.rows[k] EXCEPT !.nan = @ \cap (required_columns \cup optional_columns)]]]

\* line 132: dropna() drops a row with a missing cell in any column of the frame
dropna(df) ==
    LET Keep(r) == r.nan \cap df.columns = {}
    IN  [columns |-> df.columns, rows |-> SelectSeq(df.rows, Keep)]

\* lines 125-132
PrepareData ==
    /\ pc = "prepare"
    /\ data' = dropna(SelectColumns(data))
    /\ pc' = "validate"
    /\ UNCHANGED <<calls, num_playlists, tracks_per_playlist, use_openai, is_valid,
                   message, results, playlists, playlist, used_artists, used_isrcs,
                   remaining_tracks, iterations, playlist_names, svc, session_state, session0>>

\* variant: allocation whatever the check said
GateOpen(ok) == "generate"

\* lines 135-138: the outcome of the check decides between return and allocation
Gate(ok) == IF ok THEN "generate" ELSE "done"

\* lines 134-138
Validate ==
    /\ pc = "validate"
    /\ calls' = Append(calls, "validate_playlist_rules")
    /\ LET r == validate_playlist_rules(data, num_playlists, tracks_per_playlist)
       IN  /\ is_valid' = r[1]
           /\ message' = r[2]
           /\ pc' = Gate(r[1])
    /\ UNCHANGED <<data, num_playlists, tracks_per_playlist, use_openai, results,
                   playlists, playlist, used_artists, used_isrcs, remaining_tracks,
                   iterations, playlist_names, svc, session_state, session0>>

\* lines 140-148.  The sheet "Playlist Titles" is read at line 114 and first used
\* at line 143, where a sheet without the column 'Playlist Titles' raises KeyError.
NamePlaylists ==
    /\ pc = "generated"
    /\ \/ /\ use_openai
          /\ pc' = "raised"
          /\ message' = "KeyError"
          /\ UNCHANGED <<calls, playlist_names, svc>>
       \/ /\ use_openai
          /\ calls' = Append(calls, "suggest_playlist_names")
          /\ \E theme_reply \in ThemeReplies : \E reply \in Replies(num_playlists) :
               LET theme == analyze_playlist_theme(theme_reply)
                   names == suggest_playlist_names(theme, reply, num_playlists)
               IN  /\ playlist_names' = Padded(names, Len(playlists))
                   /\ svc' = [kind |-> IF reply.kind = "text" THEN "answered" ELSE "failed",
                              returned |-> Len(names)]
          /\ pc' = "results"
          /\ UNCHANGED message
       \/ /\ ~use_openai
          /\ playlist_names' = FallbackNames(0, num_playlists)
          /\ pc' = "results"
          /\ UNCHANGED <<calls, message, svc>>
    /\ results' = <<>>
    /\ UNCHANGED <<data, num_playlists, tracks_per_playlist, use_openai,
                   is_valid, playlists, playlist, used_artists, used_isrcs,
                   remaining_tracks, iterations, session_state, session0>>

\* st.session_state with key k set to v when k is absent (lines 153-154, 157-158)
SetDefault(ss, k, v) == IF k \in DOMAIN ss THEN ss ELSE (k :> v) @@ ss

RECURSIVE ExcludeDefaults(_, _, _)
\* lines 168-171: the exclusion keys of playlist i, rows n-1 down to 0
ExcludeDefaults(ss, i, n) ==
    IF n = 0 THEN ss
    ELSE ExcludeDefaults(SetDefault(ss, <<"exclude", i, n - 1>>, FALSE), i, n - 1)

\* lines 151-178, one playlist: its session entries, its name, its exclusion flags
\* (.loc[j] of a label the frame lacks adds a row), and the selection of the
\* result columns, which raises KeyError on a frame built from no track
ResultStep ==
    /\ pc = "results"
    /\ Len(results) < Len(playlists)
    /\ LET i == Len(results)
           pl == playlists[i + 1]
           name_key == <<"playlist_name", i>>
           s1 == SetDefault(session_state, <<"playlist", i>>, pl)
           s2 == SetDefault(s1, name_key, playlist_names[i + 1])
           new_name == s2[name_key]
           s3 == [s2 EXCEPT ![name_key] = new_name]
           s4 == ExcludeDefaults(s3, i, Len(pl))
           labels == {pl[k].idx : k \in 1..Len(pl)}
       IN  /\ session_state' = s4
           /\ IF pl = <<>>
              THEN /\ pc' = "raised"
                   /\ message' = "KeyError"
                   /\ UNCHANGED results
              ELSE /\ results' = Append(results,
                          [name |-> new_name,
                           tracks |-> pl,
                           excluded |-> {j \in 0..(Len(pl) - 1) : s4[<<"exclude", i, j>>]},
                           added |-> (0..(Len(pl) - 1)) \ labels])
                   /\ UNCHANGED <<pc, message>>
    /\ UNCHANGED <<calls, data, num_playlists, tracks_per_playlist, use_openai,
                   is_valid, playlists, playlist, used_artists, used_isrcs,
                   remaining_tracks, iterations, playlist_names, svc, session0>>

\* line 180
ReturnResults ==
    /\ pc = "results"
    /\ Len(results) >= Len(playlists)
    /\ message' = MsgSuccess
    /\ pc' = "done"
    /\ UNCHANGED <<calls, data, num_playlists, tracks_per_playlist, use_openai,
                   is_valid, results, playlists, playlist, used_artists, used_isrcs,
                   remaining_tracks, iterations, playlist_names, svc, session_state, session0>>

NoSvc == [kind |-> "none", returned |-> 0]

\* a session left by an earlier run: the first playlist and its edited name are kept
StaleSession == (<<"playlist_name", 0>> :> <<"Old">>) @@ (<<"playlist", 0>> :> <<>>)

Init ==
    /\ pc = "read"
    /\ calls = <<>>
    /\ data = NoFrame
    /\ num_playlists \in 1..MaxPlaylists
    /\ tracks_per_playlist \in 1..MaxTracks
    /\ use_openai \in BOOLEAN
    /\ is_valid = FALSE
    /\ message = ""
    /\ results = <<>>
    /\ playlists = <<>>
    /\ playlist = <<>>
    /\ used_artists = <<>>
    /\ used_isrcs = {}
    /\ remaining_tracks = <<>>
    /\ iterations = 0
    /\ playlist_names = <<>>
    /\ svc = NoSvc
    /\ session_state \in {<<>>, StaleSession}
    /\ session0 = session_state

Next ==
    \/ ReadExcel
    \/ CheckColumns
    \/ PrepareData
    \/ Validate
    \/ GenerateEnter
    \/ ForNext
    \/ WhileExit
    \/ Break
    \/ Reject
    \/ AppendTrack
    \/ GenerateReturn
    \/ NamePlaylists
    \/ ResultStep
    \/ ReturnResults

Spec == Init /\ [][Next]_vars

(***************************************************************************)
(* validate_playlist_rules applied to pools of up to CheckMaxRows tracks.  *)
(***************************************************************************)
CheckPools ==
    UNION {{[columns |-> required_columns,
             rows |-> [k \in 1..n |-> Row(k - 1, f[k], "T", k, 0, {})]] :
              f \in [1..n -> Artists]} : n \in 0..CheckMaxRows}

InitValidate ==
    /\ pc = "validate"
    /\ calls = <<>>
    /\ data \in CheckPools
    /\ num_playlists \in 1..CheckMaxPlaylists
    /\ tracks_per_playlist \in 1..CheckMaxTracks
    /\ use_openai = FALSE
    /\ is_valid = FALSE
    /\ message = ""
    /\ results = <<>>
    /\ playlists = <<>>
    /\ playlist = <<>>
    /\ used_artists = <<>>
    /\ used_isrcs = {}
    /\ remaining_tracks = <<>>
    /\ iterations = 0
    /\ playlist_names = <<>>
    /\ svc = NoSvc
    /\ session_state = <<>>
    /\ session0 = <<>>

NextValidate == Validate

SpecValidate == InitValidate /\ [][NextValidate]_vars

(***************************************************************************)
(* generate_playlists called on a pool of distinct tracks by two artists,   *)
(* "A" being the one with at least as many tracks.                         *)
(***************************************************************************)
\* na tracks by "A" then nb tracks by "B", the ISRC of row k is k, no streams column
CleanPool(na, nb) ==
    [columns |-> required_columns,
     rows |-> [k \in 1..(na + nb) |->
                 Row(k - 1, IF k <= na THEN "A" ELSE "B", "T", k, 0, {})]]

InitAlloc ==
    /\ pc = "generate"
    /\ calls = <<>>
    /\ \E na \in 0..PoolMaxRows : \E nb \in 0..Min(na, PoolMaxRows - na) : data = CleanPool(na, nb)
    /\ num_playlists \in 1..PoolMaxPlaylists
    /\ tracks_per_playlist \in 1..PoolMaxTracks
    /\ use_openai = FALSE
    /\ is_valid = FALSE
    /\ message = ""
    /\ results = <<>>
    /\ playlists = <<>>
    /\ playlist = <<>>
    /\ used_artists = <<>>
    /\ used_isrcs = {}
    /\ remaining_tracks = <<>>
    /\ iterations = 0
    /\ playlist_names = <<>>
    /\ svc = NoSvc
    /\ session_state = <<>>
    /\ session0 = <<>>

NextAlloc ==
    \/ GenerateEnter
    \/ ForNext
    \/ WhileExit
    \/ Break
    \/ Reject
    \/ AppendTrack
    \/ GenerateReturn

SpecAlloc == InitAlloc /\ [][NextAlloc]_vars

(***************************************************************************)
(* The scenario pool: 10 distinct tracks, 5 by each of two artists, one    *)
(* playlist of up to 8 tracks requested.  Sampling is random, so a track   *)
(* that can be sampled infinitely often is eventually sampled.             *)
(***************************************************************************)
InitScenario ==
    /\ pc = "generate"
    /\ calls = <<>>
    /\ data = CleanPool(5, 5)
    /\ num_playlists = 1
    /\ tracks_per_playlist \in 1..8
    /\ use_openai = FALSE
    /\ is_valid = FALSE
    /\ message = ""
    /\ results = <<>>
    /\ playlists = <<>>
    /\ playlist = <<>>
    /\ used_artists = <<>>
    /\ used_isrcs = {}
    /\ remaining_tracks = <<>>
    /\ iterations = 0
    /\ playlist_names = <<>>
    /\ svc = NoSvc
    /\ session_state = <<>>
    /\ session0 = <<>>

SpecScenario ==
    InitScenario /\ [][NextAlloc]_vars /\ WF_vars(NextAlloc) /\ SF_vars(AppendTrack)

(***************************************************************************)
(* Properties of the allocator.                                            *)
(***************************************************************************)
\* the playlists built so far: the closed ones and the one under construction
Built == IF pc = "while" THEN Append(playlists, playlist) ELSE playlists

Tally(pl, a) == Cardinality({k \in 1..Len(pl) : pl[k].artist = a})

\* every track that can still be sampled has the artist of the last appended track
Stuck ==
    /\ pc = "while"
    /\ Len(playlist) < tracks_per_playlist
    /\ LET valid == ValidTracks(remaining_tracks, used_artists, used_isrcs)
       IN  /\ valid # <<>>
           /\ \A k \in Sampled(valid, data.columns) : SameAsLast(playlist, valid[k])

\* C1: a playlist's loop runs at most tracksPerPlaylist iterations, and when every
\* track that is still unused and under the cap has the artist of the last appended
\* track the loop does not sample again: the playlist is frozen at its length.
C1_BoundedLoop ==
    /\ iterations <= tracks_per_playlist
    /\ Stuck => ~ENABLED Reject

\* C3: no playlist holds more than 3 tracks of one artist, and the artist counter
\* is the tally of the playlist under construction alone (it starts empty for each
\* playlist), so the cap is per playlist.
C3_ArtistCap ==
    /\ \A i \in 1..Len(Built) : \A a \in Artists : Tally(Built[i], a) <= 3
    /\ pc = "while" => \A a \in Artists : Count(used_artists, a) = Tally(playlist, a)

\* a call in which one artist fills its cap in the first playlist and appears again
\* in the second
C3_Witness ==
    /\ pc = "generated"
    /\ Len(playlists) = 2
    /\ \E a \in Artists : Tally(playlists[1], a) = 3 /\ Tally(playlists[2], a) >= 1

\* C4: at every point of the construction no two adjacent tracks of a playlist
\* have the same artist.
C4_NoAdjacent ==
    \A i \in 1..Len(Built) :
        \A k \in 1..(Len(Built[i]) - 1) : Built[i][k].artist # Built[i][k + 1].artist

\* a playlist of three tracks was built although a sampled track was discarded
C4_Witness ==
    /\ pc = "while"
    /\ Len(playlist) >= 3
    /\ iterations > Len(playlist)

AllFull == \A i \in 1..Len(playlists) : Len(playlists[i]) = tracks_per_playlist

\* C10: when a run ends with every playlist holding exactly tracksPerPlaylist
\* tracks, validate_playlist_rules accepts the pool and the request.
C10_Necessary ==
    (pc = "generated" /\ AllFull) =>
        validate_playlist_rules(data, num_playlists, tracks_per_playlist)[1]

\* a run that filled two playlists
C10_Witness ==
    /\ pc = "generated"
    /\ AllFull
    /\ num_playlists = 2
    /\ tracks_per_playlist >= 2

\* the converse fails: an accepted pool and request whose run ended under-filled
C10_Underfilled ==
    /\ pc = "generated"
    /\ ~AllFull
    /\ validate_playlist_rules(data, num_playlists, tracks_per_playlist)[1]

\* C8: on the scenario pool every run ends, with one playlist of exactly 6 tracks,
\* 3 by each artist, short of the 8 requested and without an error.
C8_Scenario ==
    <>[](tracks_per_playlist = 8 =>
            /\ pc = "generated"
            /\ Len(playlists) = 1
            /\ Len(playlists[1]) = 6
            /\ Tally(playlists[1], "A") = 3
            /\ Tally(playlists[1], "B") = 3)

\* a run of the scenario that discarded sampled tracks on its way
C8_Witness ==
    /\ pc = "generated"
    /\ tracks_per_playlist = 8
    /\ Len(playlists[1]) = 6
    /\ iterations > 7

(***************************************************************************)
(* Properties of the feasibility check and of process_playlists.           *)
(***************************************************************************)
Called(f) == f \in SeqToSet(calls)

\* T, U and the two rules, from the pool and the request
PoolT == Len(data.rows)

PoolU == Cardinality({data.rows[k].artist : k \in 1..Len(data.rows)})

RuleAFails == PoolT < num_playlists * tracks_per_playlist

RuleBFails == 3 * PoolU * num_playlists < num_playlists * tracks_per_playlist

\* C5: validate_playlist_rules returns (False, insufficient tracks) exactly when
\* T < P*K, otherwise (False, too many restrictions) exactly when 3*U*P < P*K,
\* otherwise (True, valid configuration); the two reasons differ and Rule A wins
\* when both rules fail.
C5_Rules ==
    (pc # "validate") =>
        /\ RuleAFails => (~is_valid /\ message = MsgInsufficient)
        /\ (~RuleAFails /\ RuleBFails) => (~is_valid /\ message = MsgRestrictions)
        /\ (~RuleAFails /\ ~RuleBFails) => (is_valid /\ message = MsgValid)
        /\ MsgInsufficient # MsgRestrictions

\* a checked request of a non-empty pool that fails both rules
C5_Witness ==
    /\ pc # "validate"
    /\ PoolT > 0
    /\ RuleAFails
    /\ RuleBFails
    /\ message = MsgInsufficient

\* C2: at every point of a call each track id occurs at most once over all
\* playlists built so far, also when rows of the pool share an ISRC.
C2_UniqueIds ==
    \A i, j \in 1..Len(Built) :
        \A k \in 1..Len(Built[i]) : \A l \in 1..Len(Built[j]) :
            (Built[i][k].isrc = Built[j][l].isrc) => (i = j /\ k = l)

\* a call on a pool whose two rows share an ISRC: the first playlist took one of
\* them and the second playlist was left without a track
C2_Witness ==
    /\ pc = "generated"
    /\ Len(data.rows) = 2
    /\ data.rows[1].isrc = data.rows[2].isrc
    /\ Len(playlists) = 2
    /\ Len(playlists[1]) = 1
    /\ playlists[2] = <<>>

\* C6: the feasibility check runs before allocation; when Rule A or Rule B fails or
\* the required columns are missing, generate_playlists is not invoked, the call
\* returns the reason of that cause with no playlists, and the session is untouched.
C6_Gate ==
    /\ Called("generate_playlists") =>
          /\ SubSeq(calls, 1, 2) = <<"validate_playlist_rules", "generate_playlists">>
          /\ ~RuleAFails
          /\ ~RuleBFails
    /\ (Called("validate_playlist_rules") /\ (RuleAFails \/ RuleBFails)) =>
          /\ pc = "done"
          /\ message = (IF RuleAFails THEN MsgInsufficient ELSE MsgRestrictions)
    /\ (pc = "done" /\ ~(required_columns \subseteq data.columns)) =>
          message \in {MsgMissingColumns, MsgReadError}
    /\ (pc = "done" /\ message # MsgSuccess) =>
          /\ ~Called("generate_playlists")
          /\ playlists = <<>>
          /\ results = <<>>
          /\ session_state = session0

\* a request rejected by Rule B alone, in a session that held entries before
C6_Witness ==
    /\ pc = "done"
    /\ message = MsgRestrictions
    /\ session0 # <<>>

RECURSIVE RowsWithRequired(_)
\* the rows whose artist, title and id are all present
RowsWithRequired(rows) ==
    IF rows = <<>> THEN <<>>
    ELSE IF Head(rows).nan \cap required_columns = {}
         THEN <<Head(rows)>> \o RowsWithRequired(Tail(rows))
         ELSE RowsWithRequired(Tail(rows))

\* C9: the pool handed to the feasibility check and to the allocator holds exactly
\* the rows of the sheet whose three required cells are present; a row that lacks
\* only its popularity weight stays in the pool.
C9_PoolRows ==
    [][pc = "prepare" => data'.rows = RowsWithRequired(data.rows)]_vars

\* C7: in a fresh session, whatever the naming service did when it was asked for
\* the names, process_playlists returns success with numPlaylists playlists, each
\* carrying its name; the names are "Playlist 1" .. "Playlist N" when the service
\* call failed, and the positions the service left without a name carry
\* "Playlist i".
C7_NamingFallback ==
    (session0 = <<>> /\ pc \in {"done", "raised"} /\ Called("suggest_playlist_names")) =>
        /\ pc = "done"
        /\ message = MsgSuccess
        /\ Len(results) = num_playlists
        /\ Len(playlist_names) = num_playlists
        /\ \A i \in 1..Len(results) : results[i].name = playlist_names[i]
        /\ svc.kind = "failed" => playlist_names = FallbackNames(0, num_playlists)
        /\ svc.kind = "answered" =>
              \A i \in (svc.returned + 1)..num_playlists : playlist_names[i] = FallbackName(i - 1)

\* the naming fallback alone: whenever names have been assigned there is one per
\* playlist, synthetic where the service failed or fell short
NamesAssigned ==
    Called("suggest_playlist_names") =>
        /\ Len(playlist_names) = num_playlists
        /\ svc.kind = "failed" => playlist_names = FallbackNames(0, num_playlists)
        /\ svc.kind = "answered" =>
              \A i \in (svc.returned + 1)..num_playlists : playlist_names[i] = FallbackName(i - 1)

====
